---- MODULE Spec2Model ----
(***************************************************************************)
(* Model of Upp::CoRoutineT (CoRoutines/CoRoutines.h): a move-only handle  *)
(* over one coroutine frame, with the Routine API (Do/Get/Pick), the       *)
(* Generator API (Next/PickNext) and the Generator iterator.               *)
(*                                                                         *)
(* The body of a coroutine is the caller's code: each resume lets it take  *)
(* one step (suspend, return or throw), chosen freely, and the frame keeps *)
(* a record of the steps taken.  ASSERT is the U++ debug assertion: a      *)
(* failed ASSERT stops the program.  Undefined behaviour (a call through a *)
(* null handle, a finished frame resumed, a destroyed handle used through  *)
(* an iterator) either crashes the program or lets the call carry on.      *)
(* CoRoutine<void> (VoidValue) is ReturnValue without the value and has no *)
(* Get/Pick; operator~ is Get() or Next() under another name.              *)
(***************************************************************************)
EXTENDS Integers, Sequences, FiniteSets, TLC

\* ---------------------------------------------------------------- bounds
\* Coroutine frames, handle objects and iterator objects the driver may make.
NFrames == 2
NHandles == 2
NIters == 1
\* Suspension points a body may reach before it ends.
MaxSusp == 2
\* Operands of co_yield and co_return are 1..MaxVal.
MaxVal == 2
\* Driving calls (Do, Next, PickNext, begin, ++) the driver may make in all.
MaxCalls == 4
\* Frames that may be Generators.
MaxGenerators == 1

\* ------------------------------------------------------------- constants
Null == 0
DefaultValue == 0
MovedFrom == 0 - 1

Frames == 1..NFrames
Handles == 1..NHandles
Iters == 1..NIters
Values == 1..MaxVal

VARIABLES fst, frame, calls, hst, htype, co, ist, gen, adv, ret, halted

vars == <<fst, frame, calls, hst, htype, co, ist, gen, adv, ret, halted>>

\* ---------------------------------------------------------------- bodies
\* The body of a coroutine is the caller's code.  Each time it is resumed it
\* takes one step: it reaches a suspension point (co_await CoSuspend{} in a
\* Routine, co_yield v in a Generator), returns (co_return v in a Routine,
\* falling off the end in a Generator), or throws.
Kinds == {"Routine", "Generator"}

Step(t, v) == [t |-> t, v |-> v]

\* The steps a body of this kind can take after having suspended n times.
BodySteps(kind, n) ==
    (IF n < MaxSusp
     THEN IF kind = "Generator"
          THEN { Step("suspend", v) : v \in Values }
          ELSE { Step("suspend", DefaultValue) }
     ELSE {})
    \cup (IF kind = "Routine"
          THEN { Step("return", v) : v \in Values }
          ELSE { Step("return", DefaultValue) })
    \cup { Step("throw", DefaultValue) }

\* ------------------------------------------------------- the promise/frame
\* The coroutine frame with its promise, as the coroutine function creates
\* it.  done, value and exc are the program's state (co.done(),
\* promise().value, promise().exc); ys, fin and rv record what the body has done
\* so far: the operands of its suspension points, how it ended, and the
\* operand of its co_return.
promise_type(kind) ==
    [kind |-> kind, ys |-> <<>>, fin |-> "running", rv |-> DefaultValue,
     done |-> FALSE, value |-> DefaultValue, exc |-> FALSE]

\* yield_value suspending without storing its operand.
yield_value_Drops(fr, val) == fr

\* co_yield val
yield_value(fr, val) == [fr EXCEPT !.value = val]

\* co_return val
return_value(fr, val) == [fr EXCEPT !.value = val]

\* co_return; / falling off the end
return_void(fr) == fr

unhandled_exception(fr) == [fr EXCEPT !.exc = TRUE]

\* final_suspend returning suspend_never: the frame never reports done().
final_suspend_never(fr) == fr

\* final_suspend returns suspend_always: the frame stays alive and done()
\* becomes true.
final_suspend(fr) == [fr EXCEPT !.done = TRUE]

\* initial_suspend returning suspend_never.
initial_suspend_never == FALSE

\* initial_suspend returns suspend_always: TRUE when the frame suspends
\* before the first statement of the body.
initial_suspend == TRUE

\* co.resume() on a frame that is not done: the body runs from its last
\* suspension point and takes the step st.
resume(fr, st) ==
    IF st.t = "suspend"
    THEN LET at == [fr EXCEPT !.ys = Append(@, st.v)]
         IN  IF fr.kind = "Generator" THEN yield_value(at, st.v) ELSE at
    ELSE IF st.t = "throw"
         THEN final_suspend(unhandled_exception([fr EXCEPT !.fin = "threw"]))
         ELSE LET at == [fr EXCEPT !.fin = "returned", !.rv = st.v]
              IN  IF fr.kind = "Routine"
                  THEN final_suspend(return_value(at, st.v))
                  ELSE final_suspend(return_void(at))

\* The steps the body of this frame can take when resumed.
Steps(fr) == BodySteps(fr.kind, Len(fr.ys))

\* Rethrow(): TRUE when it throws.
Rethrow(fr) == fr.exc

\* What pick(value) leaves in the promise: a moved-from T, which for a
\* trivially copyable T (moved = FALSE) is the value itself.
pick(v, moved) == IF moved THEN MovedFrom ELSE v

Result(fr, out, val) == [fr |-> fr, out |-> out, val |-> val]

\* ------------------------------------------------ the calls, on one frame
\* Do() with the test of its return statement inverted.
DoCall_Inverted(fr, st) ==
    IF fr.done
    THEN Result(fr, "false", DefaultValue)
    ELSE LET r == resume(fr, st)
         IN  IF Rethrow(r)
             THEN Result(r, "exc", DefaultValue)
             ELSE Result(r, IF r.done THEN "true" ELSE "false", DefaultValue)

\* Do() calling Rethrow() before it tests co.done().
DoCall_RethrowFirst(fr, st) ==
    IF Rethrow(fr)
    THEN Result(fr, "exc", DefaultValue)
    ELSE IF fr.done
         THEN Result(fr, "false", DefaultValue)
         ELSE LET r == resume(fr, st)
              IN  IF Rethrow(r)
                  THEN Result(r, "exc", DefaultValue)
                  ELSE Result(r, IF ~r.done THEN "true" ELSE "false", DefaultValue)

\* Do() without the test of co.done() before co.resume().
DoCall_NoDoneTest(fr, st) ==
    LET r == resume(fr, st)
    IN  IF Rethrow(r)
        THEN Result(r, "exc", DefaultValue)
        ELSE Result(r, IF ~r.done THEN "true" ELSE "false", DefaultValue)

\* bool Do(), after ASSERT(co)
DoCall(fr, st) ==
    IF fr.done
    THEN Result(fr, "false", DefaultValue)
    ELSE LET r == resume(fr, st)
         IN  IF Rethrow(r)
             THEN Result(r, "exc", DefaultValue)
             ELSE Result(r, IF ~r.done THEN "true" ELSE "false", DefaultValue)

\* Get() returning pick(co.promise().value), as Pick() does, for a T whose
\* move leaves the source changed.
GetCall_Moves(fr) ==
    IF ~fr.done
    THEN Result(fr, "assert", DefaultValue)
    ELSE Result([fr EXCEPT !.value = pick(@, TRUE)], "value", fr.value)

\* T Get() const, after ASSERT(co)
GetCall(fr) ==
    IF ~fr.done
    THEN Result(fr, "assert", DefaultValue)
    ELSE Result(fr, "value", fr.value)

\* T Pick(), after ASSERT(co)
PickCall(fr, moved) ==
    IF ~fr.done
    THEN Result(fr, "assert", DefaultValue)
    ELSE Result([fr EXCEPT !.value = pick(@, moved)], "value", fr.value)

\* Next() reading promise().value before it resumes the frame.
NextCall_Stale(fr, st) ==
    IF fr.done
    THEN Result(fr, "exhausted", DefaultValue)
    ELSE LET r == resume(fr, st)
         IN  IF Rethrow(r)
             THEN Result(r, "exc", DefaultValue)
             ELSE IF r.done
                  THEN Result(r, "exhausted", DefaultValue)
                  ELSE Result(r, "value", fr.value)

\* Next() without the test of co.done() after co.resume().
NextCall_NoSecondTest(fr, st) ==
    IF fr.done
    THEN Result(fr, "exhausted", DefaultValue)
    ELSE LET r == resume(fr, st)
         IN  IF Rethrow(r)
             THEN Result(r, "exc", DefaultValue)
             ELSE Result(r, "value", r.value)

\* T Next(), after ASSERT(co)
NextCall(fr, st) ==
    IF fr.done
    THEN Result(fr, "exhausted", DefaultValue)
    ELSE LET r == resume(fr, st)
         IN  IF Rethrow(r)
             THEN Result(r, "exc", DefaultValue)
             ELSE IF r.done
                  THEN Result(r, "exhausted", DefaultValue)
                  ELSE Result(r, "value", r.value)

\* PickNext() moving the value out of the promise and then returning what
\* is left in the promise.
PickNextCall_ReturnsMoved(fr, st, moved) ==
    IF fr.done
    THEN Result(fr, "exhausted", DefaultValue)
    ELSE LET r == resume(fr, st)
         IN  IF Rethrow(r)
             THEN Result(r, "exc", DefaultValue)
             ELSE IF r.done
                  THEN Result(r, "exhausted", DefaultValue)
                  ELSE Result([r EXCEPT !.value = pick(@, moved)], "value", pick(r.value, moved))

\* T PickNext(), after ASSERT(co)
PickNextCall(fr, st, moved) ==
    IF fr.done
    THEN Result(fr, "exhausted", DefaultValue)
    ELSE LET r == resume(fr, st)
         IN  IF Rethrow(r)
             THEN Result(r, "exc", DefaultValue)
             ELSE IF r.done
                  THEN Result(r, "exhausted", DefaultValue)
                  ELSE Result([r EXCEPT !.value = pick(@, moved)], "value", r.value)

\* ------------------------------------------------------------------ state
\* fst, frame: the coroutine frames and whether each exists; calls: the
\* driving calls (Do, Next, PickNext, begin, ++) made on each frame;
\* hst, htype, co: the handle objects, their static type and their member co;
\* ist, gen: the iterator objects and their member gen; adv: the frame each
\* iterator was made on by begin() and the resumes made through it since; halted: a failed ASSERT or a crash ended the program.
\* ret: the last call made by the driver and what came back.  op: the call;
\* h, it: the handle and iterator it was made on; f: the frame the handle
\* owned; out: the outcome; val: the value returned when out = "value";
\* ub: the call had undefined behaviour.
NoRet == [op |-> "none", h |-> Null, it |-> Null, f |-> Null, out |-> "none", val |-> DefaultValue, ub |-> FALSE]

Ret(op, h, f, out, val) == [NoRet EXCEPT !.op = op, !.h = h, !.f = f, !.out = out, !.val = val]

ItRet(op, i, h, f, out, val) == [Ret(op, h, f, out, val) EXCEPT !.it = i]

UBRet(op, i, h, f, out, val) == [ItRet(op, i, h, f, out, val) EXCEPT !.ub = TRUE]

\* An iterator that begin() has not made.
NoAdv == [f |-> Null, n |-> 0]

Init ==
    /\ fst = [f \in Frames |-> "none"]
    /\ frame = [f \in Frames |-> promise_type("Routine")]
    /\ calls = [f \in Frames |-> 0]
    /\ hst = [h \in Handles |-> "unborn"]
    /\ htype = [h \in Handles |-> "Routine"]
    /\ co = [h \in Handles |-> Null]
    /\ ist = [i \in Iters |-> "unborn"]
    /\ gen = [i \in Iters |-> Null]
    /\ adv = [i \in Iters |-> NoAdv]
    /\ ret = NoRet
    /\ halted = FALSE

\* The next unused handle object and frame.
FreshHandle(h) == hst[h] = "unborn" /\ \A g \in Handles : g < h => hst[g] # "unborn"

FreshFrame(f) == fst[f] = "none" /\ \A g \in Frames : g < f => fst[g] # "none"

\* Calling a coroutine function: get_return_object() wraps the new frame in
\* a handle; the body starts only if initial_suspend does not suspend.
Create(h, kind) ==
    /\ ~halted
    /\ FreshHandle(h)
    /\ kind = "Generator" =>
          Cardinality({f \in Frames : fst[f] # "none" /\ frame[f].kind = "Generator"}) < MaxGenerators
    /\ \E f \in Frames :
         /\ FreshFrame(f)
         /\ fst' = [fst EXCEPT ![f] = "live"]
         /\ \E st \in Steps(promise_type(kind)) :
              frame' = [frame EXCEPT ![f] = IF initial_suspend THEN promise_type(kind)
                                               ELSE resume(promise_type(kind), st)]
         /\ co' = [co EXCEPT ![h] = f]
         /\ ret' = Ret("Create", h, f, "none", DefaultValue)
    /\ hst' = [hst EXCEPT ![h] = "live"]
    /\ htype' = [htype EXCEPT ![h] = kind]
    /\ UNCHANGED <<calls, ist, gen, adv, halted>>

\* ASSERT(co) failed.
AssertCo(op, h) ==
    /\ co[h] = Null
    /\ ret' = Ret(op, h, Null, "assert", DefaultValue)
    /\ halted' = TRUE
    /\ UNCHANGED <<fst, frame, calls, hst, htype, co, ist, gen, adv>>

\* A call of the handle's API that went past ASSERT(co) with result r.
Called(op, h, r, driving) ==
    LET f == co[h]
    IN  /\ frame' = [frame EXCEPT ![f] = r.fr]
        /\ ret' = Ret(op, h, f, r.out, r.val)
        /\ halted' = (r.out = "assert")
        /\ calls' = IF driving THEN [calls EXCEPT ![f] = @ + 1] ELSE calls
        /\ UNCHANGED <<fst, hst, htype, co, ist, gen, adv>>

\* The driver makes at most MaxCalls driving calls in all.
RECURSIVE SumUpTo(_, _)
SumUpTo(c, n) == IF n = 0 THEN 0 ELSE c[n] + SumUpTo(c, n - 1)

TotalCalls == SumUpTo(calls, NFrames)

CanDrive(h) == co[h] # Null => TotalCalls < MaxCalls

Do(h) ==
    /\ ~halted /\ hst[h] = "live" /\ htype[h] = "Routine" /\ CanDrive(h)
    /\ \/ AssertCo("Do", h)
       \/ /\ co[h] # Null
          /\ \E st \in Steps(frame[co[h]]) :
                Called("Do", h, DoCall(frame[co[h]], st), TRUE)

Get(h) ==
    /\ ~halted /\ hst[h] = "live" /\ htype[h] = "Routine"
    /\ \/ AssertCo("Get", h)
       \/ co[h] # Null /\ Called("Get", h, GetCall(frame[co[h]]), FALSE)

Pick(h) ==
    /\ ~halted /\ hst[h] = "live" /\ htype[h] = "Routine"
    /\ \/ AssertCo("Pick", h)
       \/ /\ co[h] # Null
          /\ \E moved \in BOOLEAN :
                Called("Pick", h, PickCall(frame[co[h]], moved), FALSE)

Next(h) ==
    /\ ~halted /\ hst[h] = "live" /\ htype[h] = "Generator" /\ CanDrive(h)
    /\ \/ AssertCo("Next", h)
       \/ /\ co[h] # Null
          /\ \E st \in Steps(frame[co[h]]) :
                Called("Next", h, NextCall(frame[co[h]], st), TRUE)

PickNext(h) ==
    /\ ~halted /\ hst[h] = "live" /\ htype[h] = "Generator" /\ CanDrive(h)
    /\ \/ AssertCo("PickNext", h)
       \/ /\ co[h] # Null
          /\ \E st \in Steps(frame[co[h]]), moved \in BOOLEAN :
                Called("PickNext", h, PickNextCall(frame[co[h]], st, moved), TRUE)

\* co.destroy() in the destructor and in move assignment.
destroy(f) == [fst EXCEPT ![f] = "destroyed"]

\* The move constructor without r.co = {}.
MoveCtor_KeepsSource(dst, src) ==
    /\ ~halted /\ FreshHandle(dst) /\ hst[src] = "live"
    /\ hst' = [hst EXCEPT ![dst] = "live"]
    /\ htype' = [htype EXCEPT ![dst] = htype[src]]
    /\ co' = [co EXCEPT ![dst] = co[src]]
    /\ ret' = Ret("MoveCtor", dst, co[src], "none", DefaultValue)
    /\ UNCHANGED <<fst, frame, calls, ist, gen, adv, halted>>

\* CoRoutineT(CoRoutineT&& r): dst is a new handle object.
MoveCtor(dst, src) ==
    /\ ~halted /\ FreshHandle(dst) /\ hst[src] = "live"
    /\ hst' = [hst EXCEPT ![dst] = "live"]
    /\ htype' = [htype EXCEPT ![dst] = htype[src]]
    /\ co' = [co EXCEPT ![dst] = co[src], ![src] = Null]
    /\ ret' = Ret("MoveCtor", dst, co[src], "none", DefaultValue)
    /\ UNCHANGED <<fst, frame, calls, ist, gen, adv, halted>>

\* Move assignment without the test this != &r.
MoveAssign_NoSelfTest(dst, src) ==
    /\ ~halted /\ hst[dst] = "live" /\ hst[src] = "live" /\ htype[dst] = htype[src]
    /\ fst' = IF co[dst] # Null THEN destroy(co[dst]) ELSE fst
    /\ co' = [[co EXCEPT ![dst] = co[src]] EXCEPT ![src] = Null]
    /\ ret' = Ret("MoveAssign", dst, co[src], "none", DefaultValue)
    /\ UNCHANGED <<frame, calls, hst, htype, ist, gen, adv, halted>>

\* Move assignment without co.destroy() of the frame it owned.
MoveAssign_Leaks(dst, src) ==
    /\ ~halted /\ hst[dst] = "live" /\ hst[src] = "live" /\ htype[dst] = htype[src]
    /\ IF dst # src
       THEN /\ co' = [co EXCEPT ![dst] = co[src], ![src] = Null]
            /\ UNCHANGED fst
       ELSE UNCHANGED <<fst, co>>
    /\ ret' = Ret("MoveAssign", dst, co[src], "none", DefaultValue)
    /\ UNCHANGED <<frame, calls, hst, htype, ist, gen, adv, halted>>

\* CoRoutineT& operator=(CoRoutineT&& r)
MoveAssign(dst, src) ==
    /\ ~halted /\ hst[dst] = "live" /\ hst[src] = "live" /\ htype[dst] = htype[src]
    /\ IF dst # src
       THEN /\ fst' = IF co[dst] # Null THEN destroy(co[dst]) ELSE fst
            /\ co' = [co EXCEPT ![dst] = co[src], ![src] = Null]
       ELSE UNCHANGED <<fst, co>>
    /\ ret' = Ret("MoveAssign", dst, co[src], "none", DefaultValue)
    /\ UNCHANGED <<frame, calls, hst, htype, ist, gen, adv, halted>>

\* ~CoRoutineT()
Destroy(h) ==
    /\ ~halted /\ hst[h] = "live"
    /\ hst' = [hst EXCEPT ![h] = "dead"]
    /\ fst' = IF co[h] # Null THEN destroy(co[h]) ELSE fst
    /\ ret' = Ret("Destroy", h, co[h], "none", DefaultValue)
    /\ UNCHANGED <<frame, calls, htype, co, ist, gen, adv, halted>>

\* ------------------------------------------------------------ the iterator
\* Undefined behaviour that touches no state: the program crashes, or the
\* call comes back with val.
Undefined(op, i, h, val) ==
    /\ ret' = UBRet(op, i, h, IF h # Null /\ hst[h] = "live" THEN co[h] ELSE Null, "ub", val)
    /\ halted' \in BOOLEAN
    /\ UNCHANGED <<fst, frame, calls, hst, htype, co, ist, adv>>

\* The iterator's pointer gen does not lead to a frame: it is null, the
\* handle it points to is destroyed, or that handle is empty.
NoFrame(g) == g = Null \/ hst[g] # "live" \/ co[g] = Null

\* The iterator constructor without gen->Rethrow().
IteratorCtor_NoRethrow(fr, st, g) ==
    IF ~fr.done
    THEN LET r == resume(fr, st)
         IN  IF r.done
             THEN [fr |-> r, out |-> "end", gen |-> Null]
             ELSE [fr |-> r, out |-> "iter", gen |-> g]
    ELSE [fr |-> fr, out |-> "iter", gen |-> g]

\* explicit Iterator(CoRoutineT* g), with g->co non-null: the result's
\* gen is the new iterator's pointer (g or nullptr).
IteratorCtor(fr, st, g) ==
    IF ~fr.done
    THEN LET r == resume(fr, st)
         IN  IF Rethrow(r)
             THEN [fr |-> r, out |-> "exc", gen |-> Null]
             ELSE IF r.done
                  THEN [fr |-> r, out |-> "end", gen |-> Null]
                  ELSE [fr |-> r, out |-> "iter", gen |-> g]
    ELSE [fr |-> fr, out |-> "iter", gen |-> g]

\* operator++ signalling the end of the body the way Next() does.
Increment_Throws(fr, st, g, resumed) ==
    LET r == IF resumed THEN resume(fr, st) ELSE fr
    IN  IF Rethrow(r)
        THEN [fr |-> r, out |-> "exc", gen |-> g]
        ELSE IF r.done
             THEN [fr |-> r, out |-> "exhausted", gen |-> g]
             ELSE [fr |-> r, out |-> "iter", gen |-> g]

\* Iterator& operator++(), with gen->co non-null; resumed: FALSE when the
\* frame was done and resuming it (undefined) did nothing.
Increment(fr, st, g, resumed) ==
    LET r == IF resumed THEN resume(fr, st) ELSE fr
    IN  IF Rethrow(r)
        THEN [fr |-> r, out |-> "exc", gen |-> g]
        ELSE IF r.done
             THEN [fr |-> r, out |-> "end", gen |-> Null]
             ELSE [fr |-> r, out |-> "iter", gen |-> g]

\* Iterator begin(): Iterator(this)
Begin(i, h) ==
    /\ ~halted /\ hst[h] = "live" /\ htype[h] = "Generator" /\ ist[i] = "unborn"
    /\ CanDrive(h)
    /\ IF co[h] = Null
       THEN \* gen->co.done() on a null handle
            /\ ret' = UBRet("begin", i, h, Null, "ub", DefaultValue)
            /\ halted' \in BOOLEAN
            /\ ist' = IF halted' THEN ist ELSE [ist EXCEPT ![i] = "live"]
            /\ gen' = IF halted' THEN gen ELSE [gen EXCEPT ![i] = h]
            /\ UNCHANGED <<fst, frame, calls, hst, htype, co, adv>>
       ELSE LET f == co[h]
            IN  \E st \in Steps(frame[f]) :
                LET r == IteratorCtor(frame[f], st, h) IN
                /\ frame' = [frame EXCEPT ![f] = r.fr]
                /\ ret' = ItRet("begin", i, h, f, r.out, DefaultValue)
                /\ calls' = [calls EXCEPT ![f] = @ + 1]
                /\ ist' = IF r.out = "exc" THEN ist ELSE [ist EXCEPT ![i] = "live"]
                /\ gen' = IF r.out = "exc" THEN gen ELSE [gen EXCEPT ![i] = r.gen]
                /\ adv' = IF r.out = "exc" THEN adv ELSE [adv EXCEPT ![i] = [f |-> f, n |-> 1]]
                /\ UNCHANGED <<fst, hst, htype, co, halted>>

\* value_type operator*() const
Deref(i) ==
    /\ ~halted /\ ist[i] = "live"
    /\ IF gen[i] = Null
       THEN \* ASSERT(gen) failed
            /\ ret' = ItRet("deref", i, Null, Null, "assert", DefaultValue)
            /\ halted' = TRUE
            /\ UNCHANGED <<fst, frame, calls, hst, htype, co, ist, gen, adv>>
       ELSE IF NoFrame(gen[i])
            THEN /\ \E v \in Values \cup {DefaultValue} : Undefined("deref", i, gen[i], v)
                 /\ UNCHANGED gen
            ELSE /\ ret' = ItRet("deref", i, gen[i], co[gen[i]], "value", frame[co[gen[i]]].value)
                 /\ UNCHANGED <<fst, frame, calls, hst, htype, co, ist, gen, adv, halted>>

\* Iterator& operator++()
Inc(i) ==
    /\ ~halted /\ ist[i] = "live"
    /\ IF NoFrame(gen[i])
       THEN /\ Undefined("inc", i, gen[i], DefaultValue)
            /\ UNCHANGED gen
       ELSE LET h == gen[i]
                f == co[h]
            IN  /\ TotalCalls < MaxCalls
                /\ \E crash \in IF frame[f].done THEN BOOLEAN ELSE {FALSE}, st \in Steps(frame[f]) :
                     LET r == Increment(frame[f], st, h, ~frame[f].done)
                     IN  /\ halted' = crash
                         /\ frame' = IF crash THEN frame ELSE [frame EXCEPT ![f] = r.fr]
                         /\ gen' = IF crash THEN gen ELSE [gen EXCEPT ![i] = r.gen]
                         /\ ret' = [ItRet("inc", i, h, f, IF crash THEN "ub" ELSE r.out, DefaultValue)
                                       EXCEPT !.ub = frame[f].done]
                /\ calls' = [calls EXCEPT ![f] = @ + 1]
                /\ adv' = [adv EXCEPT ![i].n = @ + 1]
                /\ UNCHANGED <<fst, hst, htype, co, ist>>

\* bool operator==(std::default_sentinel_t) const
IsEnd(i) ==
    /\ ~halted /\ ist[i] = "live"
    /\ ret' = ItRet("isend", i, gen[i], Null, IF gen[i] = Null THEN "true" ELSE "false", DefaultValue)
    /\ UNCHANGED <<fst, frame, calls, hst, htype, co, ist, gen, adv, halted>>

\* The iterator goes out of scope.
DropIter(i) ==
    /\ ~halted /\ ist[i] = "live"
    /\ ist' = [ist EXCEPT ![i] = "unborn"]
    /\ gen' = [gen EXCEPT ![i] = Null]
    /\ adv' = [adv EXCEPT ![i] = NoAdv]
    /\ ret' = ItRet("drop", i, Null, Null, "none", DefaultValue)
    /\ UNCHANGED <<fst, frame, calls, hst, htype, co, halted>>

NextStep ==
    \/ \E h \in Handles, kind \in Kinds : Create(h, kind)
    \/ \E h \in Handles : Do(h)
    \/ \E h \in Handles : Get(h)
    \/ \E h \in Handles : Pick(h)
    \/ \E h \in Handles : Next(h)
    \/ \E h \in Handles : PickNext(h)
    \/ \E dst, src \in Handles : MoveCtor(dst, src)
    \/ \E dst, src \in Handles : MoveAssign(dst, src)
    \/ \E h \in Handles : Destroy(h)
    \/ \E i \in Iters, h \in Handles : Begin(i, h)
    \/ \E i \in Iters : Deref(i)
    \/ \E i \in Iters : Inc(i)
    \/ \E i \in Iters : IsEnd(i)
    \/ \E i \in Iters : DropIter(i)

Spec == Init /\ [][NextStep]_vars

\* A driver that only makes Routines and calls Do(), Get() and Pick().
NextRoutine ==
    \/ \E h \in Handles : Create(h, "Routine")
    \/ \E h \in Handles : Do(h)
    \/ \E h \in Handles : Get(h)
    \/ \E h \in Handles : Pick(h)

SpecRoutine == Init /\ [][NextRoutine]_vars

\* A driver that only makes Generators and calls Next() and PickNext().
NextGenerator ==
    \/ \E h \in Handles : Create(h, "Generator")
    \/ \E h \in Handles : Next(h)
    \/ \E h \in Handles : PickNext(h)

SpecGenerator == Init /\ [][NextGenerator]_vars

\* A driver that only makes Generators and iterates them.
NextIteration ==
    \/ \E h \in Handles : Create(h, "Generator")
    \/ \E i \in Iters, h \in Handles : Begin(i, h)
    \/ \E i \in Iters : Deref(i)
    \/ \E i \in Iters : Inc(i)
    \/ \E i \in Iters : IsEnd(i)
    \/ \E i \in Iters : DropIter(i)

SpecIteration == Init /\ [][NextIteration]_vars

\* A driver that makes, drives, moves and destroys handles, without iterators.
NextOwnership ==
    \/ \E h \in Handles, kind \in Kinds : Create(h, kind)
    \/ \E h \in Handles : Do(h)
    \/ \E h \in Handles : Next(h)
    \/ \E dst, src \in Handles : MoveCtor(dst, src)
    \/ \E dst, src \in Handles : MoveAssign(dst, src)
    \/ \E h \in Handles : Destroy(h)

SpecOwnership == Init /\ [][NextOwnership]_vars

\* A driver that only makes Generators, and both calls and iterates them.
NextSequence ==
    \/ \E h \in Handles : Create(h, "Generator")
    \/ \E h \in Handles : Next(h)
    \/ \E h \in Handles : PickNext(h)
    \/ \E i \in Iters, h \in Handles : Begin(i, h)
    \/ \E i \in Iters : Deref(i)
    \/ \E i \in Iters : Inc(i)
    \/ \E i \in Iters : IsEnd(i)
    \/ \E i \in Iters : DropIter(i)

SpecSequence == Init /\ [][NextSequence]_vars

\* A driver that makes Routines and Generators and only drives them.
NextDriving ==
    \/ \E h \in Handles, kind \in Kinds : Create(h, kind)
    \/ \E h \in Handles : Do(h)
    \/ \E h \in Handles : Next(h)
    \/ \E h \in Handles : PickNext(h)

SpecDriving == Init /\ [][NextDriving]_vars

\* ------------------------------------------------------------- properties
\* The steps the body of a frame has taken so far.
NSteps(fr) == Len(fr.ys) + (IF fr.fin = "running" THEN 0 ELSE 1)

\* The last call was op, made on a handle that owned a frame.
Was(op) == ret.op = op /\ ret.f # Null

\* C1: for a Routine whose body suspends k times and then returns, the
\* first k calls of Do() return true, the (k+1)-th returns false and so does
\* every later one; a Routine that is still running has suspended once for
\* each call made.
C1_DoCountsSuspensions ==
    /\ \A f \in Frames :
          (fst[f] = "live" /\ frame[f].kind = "Routine" /\ frame[f].fin = "running")
              => calls[f] = Len(frame[f].ys)
    /\ (Was("Do") /\ frame[ret.f].fin # "threw") =>
          LET k == Len(frame[ret.f].ys)
              c == calls[ret.f]
          IN  /\ c <= k => ret.out = "true"
              /\ c > k => (ret.out = "false" /\ frame[ret.f].fin = "returned")

C1_Witness ==
    /\ Was("Do") /\ frame[ret.f].fin = "returned"
    /\ Len(frame[ret.f].ys) = 2 /\ calls[ret.f] = 4 /\ ret.out = "false"

\* C2: for a Generator whose body yields v1..vn and then ends, the c-th
\* driving call, when it is Next(), returns vc for c <= n and throws the
\* exhaustion Exc for every c > n.
C2_NextInOrder ==
    (Was("Next") /\ frame[ret.f].fin # "threw") =>
        LET n == Len(frame[ret.f].ys)
            c == calls[ret.f]
        IN  /\ c <= n => (ret.out = "value" /\ ret.val = frame[ret.f].ys[c])
            /\ c > n => (ret.out = "exhausted" /\ frame[ret.f].fin = "returned")

C2_Witness ==
    /\ Was("Next") /\ frame[ret.f].fin = "returned" /\ ret.out = "exhausted"
    /\ frame[ret.f].ys = <<2, 1>> /\ calls[ret.f] = 4

\* C3: when a Routine body throws, the Do() call that resumed it into the
\* throw rethrows the exception, the frame is done afterwards, and every
\* later Do() returns false; Do() throws in no other case.
C3_FailureOnce ==
    Was("Do") =>
        LET fr == frame[ret.f]
            c == calls[ret.f]
        IN  /\ fr.fin = "threw" =>
                  /\ fr.done
                  /\ c = NSteps(fr) => ret.out = "exc"
                  /\ c > NSteps(fr) => ret.out = "false"
            /\ ret.out = "exc" => (fr.fin = "threw" /\ c = NSteps(fr))

C3_Witness ==
    /\ Was("Do") /\ frame[ret.f].fin = "threw" /\ Len(frame[ret.f].ys) = 1
    /\ calls[ret.f] = 3 /\ ret.out = "false"

\* The steps the body of a frame has taken, in order.
BodyTrace(fr) ==
    [i \in 1..NSteps(fr) |->
        IF i <= Len(fr.ys) THEN Step("suspend", fr.ys[i])
        ELSE IF fr.fin = "threw" THEN Step("throw", DefaultValue)
        ELSE Step("return", fr.rv)]

\* What the c-th of c successive calls of Next() gives on the frame fr whose
\* body takes the steps tr (c <= Len(tr), or fr is done by then).
RECURSIVE NextTimes(_, _, _)
NextTimes(fr, tr, c) ==
    LET r == NextCall(fr, IF tr = <<>> THEN Step("throw", DefaultValue) ELSE Head(tr))
    IN  IF c <= 1 THEN r ELSE NextTimes(r.fr, IF tr = <<>> THEN tr ELSE Tail(tr), c - 1)

\* The same for Do().
RECURSIVE DoTimes(_, _, _)
DoTimes(fr, tr, c) ==
    LET r == DoCall(fr, IF tr = <<>> THEN Step("throw", DefaultValue) ELSE Head(tr))
    IN  IF c <= 1 THEN r ELSE DoTimes(r.fr, IF tr = <<>> THEN tr ELSE Tail(tr), c - 1)

\* C4: once the body of a frame has thrown, no call returns a value of that
\* computation, and begin() gives no iterator that can be dereferenced.
C4_NoValueAfterFailure ==
    (ret.f # Null /\ frame[ret.f].fin = "threw" /\ ~ret.ub) => ret.out \notin {"value", "iter"}

\* C5: on a fresh Generator driven only through one iterator (begin(), then
\* ++), the c-th step of the iteration runs one step of the body and gives
\* what the c-th Next() on a fresh Generator with the same body gives: a
\* dereferenceable iterator whose value is the value Next() returns, end()
\* where Next() throws the exhaustion Exc, the body's exception where Next()
\* rethrows it; the iterator never throws the exhaustion Exc.
C5_IterationMatchesNext ==
    LET f == ret.f
        c == calls[f]
        n == NextTimes(promise_type("Generator"), BodyTrace(frame[f]), c)
    IN  /\ ( /\ ret.op \in {"begin", "inc"} /\ f # Null /\ ~ret.ub
             /\ IF ret.op = "begin" THEN c = 1 ELSE adv[ret.it] = [f |-> f, n |-> c] )
           => /\ c = NSteps(frame[f])
              /\ (ret.out = "iter") = (n.out = "value")
              /\ (ret.out = "end") = (n.out = "exhausted")
              /\ (ret.out = "exc") = (n.out = "exc")
              /\ ret.out = "iter" => (frame[f].value = n.val /\ gen[ret.it] = ret.h)
              /\ ret.out = "end" => gen[ret.it] = Null
        /\ ( /\ ret.op = "deref" /\ f # Null /\ ~ret.ub
             /\ adv[ret.it] = [f |-> f, n |-> c] /\ frame[f].fin = "running" )
           => (ret.out = "value" /\ n.out = "value" /\ ret.val = n.val)

C5_Witness ==
    /\ ret.op = "inc" /\ ret.f # Null /\ ~ret.ub
    /\ adv[ret.it] = [f |-> ret.f, n |-> 3] /\ calls[ret.f] = 3
    /\ frame[ret.f].ys = <<2, 1>> /\ ret.out = "end"

\* C6: begin() on a Generator that is already done gives an iterator equal
\* to end().
C6_NotRestartable ==
    (ret.op = "begin" /\ ret.f # Null /\ calls[ret.f] > NSteps(frame[ret.f]))
        => (ret.out = "end" /\ gen[ret.it] = Null)

\* The frame as Do()/Next() alone would have left it after the steps tr.
RECURSIVE Replay(_, _)
Replay(fr, tr) == IF tr = <<>> THEN fr ELSE Replay(resume(fr, Head(tr)), Tail(tr))

\* A move hands the frame over untouched: the destination owns it, no other
\* handle does, and the source is empty.
MoveTransfers ==
    (ret'.op \in {"MoveCtor", "MoveAssign"} /\ ret'.f # Null) =>
        /\ co'[ret'.h] = ret'.f
        /\ \A s \in Handles : (s # ret'.h /\ co[s] = ret'.f) => co'[s] = Null
        /\ \A s \in Handles : (s # ret'.h) => co'[s] # ret'.f
        /\ frame'[ret'.f] = frame[ret'.f]
        /\ fst'[ret'.f] = "live"
        /\ calls' = calls

\* Whichever handle owns a frame, and however often the frame was moved, the
\* c-th driving call made on it gives what the c-th call gives on a frame
\* that never moved, and Get() gives the value that frame ends with (unless
\* Pick() has moved the value out).
ContinuesWhereLeft ==
    LET f == ret.f
        fr == frame[f]
        fresh == promise_type(fr.kind)
    IN  /\ Was("Do") =>
              ret.out = DoTimes(fresh, BodyTrace(fr), calls[f]).out
        /\ Was("Next") =>
              LET n == NextTimes(fresh, BodyTrace(fr), calls[f])
              IN  ret.out = n.out /\ ret.val = n.val
        /\ (Was("Get") /\ fr.value # MovedFrom) =>
              LET g == GetCall(Replay(fresh, BodyTrace(fr)))
              IN  ret.out = g.out /\ ret.val = g.val
        /\ ret.op \in {"Do", "Get", "Next"} /\ f # Null => co[ret.h] = f

\* C7: a move (construction or assignment) leaves the source empty and the
\* destination owning the untouched frame, and the calls made through the
\* destination continue the computation where the source left it.
C7_MoveContinues == [][MoveTransfers]_vars /\ []ContinuesWhereLeft

C7_Witness ==
    /\ Was("Get") /\ ret.f = 1 /\ ret.h = 2 /\ hst[1] = "live" /\ co[1] = Null
    /\ ret.out = "value" /\ Len(frame[1].ys) = 2

\* The calls of the public interface that act on a handle.
ApiOps == {"Do", "Get", "Pick", "Next", "PickNext", "begin", "deref", "inc"}

\* C8: a call on an empty handle, or through an iterator on an empty
\* handle, fails an ASSERT.
C8_EmptyHandleAsserts ==
    (ret.op \in ApiOps /\ ret.h # Null /\ hst[ret.h] = "live" /\ co[ret.h] = Null)
        => (ret.out = "assert" /\ ~ret.ub)

\* C9: Get() and Pick() return a value when the Routine has returned one,
\* and fail an ASSERT when it is still running or has thrown.
C9_GetNeedsValue ==
    (ret.op \in {"Get", "Pick"} /\ ret.f # Null) =>
        ret.out = (IF frame[ret.f].fin = "returned" THEN "value" ELSE "assert")

\* The calls that resume a frame.
DrivingOps == {"Do", "Next", "PickNext", "begin", "inc"}

\* A frame's body takes a step only in a driving call made on that frame, and
\* one step at a time.
OneStepPerCall ==
    \A f \in Frames :
        NSteps(frame'[f]) # NSteps(frame[f]) =>
            /\ ret'.op \in DrivingOps /\ ret'.f = f
            /\ NSteps(frame'[f]) = NSteps(frame[f]) + 1

\* No frame has run more steps of its body than driving calls were made on
\* it; a frame just created is the initial promise.
NotStartedEarly ==
    /\ \A f \in Frames : NSteps(frame[f]) <= calls[f]
    /\ Was("Create") => frame[ret.f] = promise_type(htype[ret.h])

\* C10: creating a handle runs nothing of the body; the body starts in the
\* first driving call, and each driving call runs it for one step only.
C10_Lazy == [][OneStepPerCall]_vars /\ []NotStartedEarly

C10_Witness ==
    /\ ret.op \in DrivingOps /\ ret.f # Null
    /\ calls[ret.f] = 1 /\ Len(frame[ret.f].ys) = 1 /\ frame[ret.f].fin = "running"

\* A frame is done exactly when its body has returned or thrown.
DoneWhenEnded == \A f \in Frames : frame[f].done = (frame[f].fin # "running")

\* No call makes a done frame not done, or lets its body take another step.
StaysDone ==
    \A f \in Frames :
        frame[f].done => (frame'[f].done /\ frame'[f].fin = frame[f].fin)

\* C11: a frame whose body has returned or thrown is done, and it stays done
\* through every later call, iteration and move.
C11_DoneIsMonotonic == []DoneWhenEnded /\ [][StaysDone]_vars

C11_Witness ==
    /\ Was("Next") /\ ret.h = 2 /\ ret.f = 1 /\ frame[1].done
    /\ calls[1] > NSteps(frame[1]) + 1 /\ ret.out = "exhausted"

\* Get() on a Routine that returned v gives v (unless Pick() has moved the
\* value out of the promise).
GetGivesReturned ==
    (Was("Get") /\ frame[ret.f].fin = "returned" /\ frame[ret.f].value # MovedFrom)
        => (ret.out = "value" /\ ret.val = frame[ret.f].rv)

\* Get() changes no frame and no handle.
GetIsConst ==
    ret'.op = "Get" => (frame' = frame /\ fst' = fst /\ co' = co /\ calls' = calls)

\* C12: once a Routine has returned v, every Get() returns v, however many
\* calls of Get() and Do() came before, and Get() leaves the frame as it was.
C12_GetIsStable == []GetGivesReturned /\ [][GetIsConst]_vars

C12_Witness ==
    /\ Was("Get") /\ frame[ret.f].fin = "returned" /\ frame[ret.f].rv = 2
    /\ Len(frame[ret.f].ys) = 1 /\ calls[ret.f] = 4
    /\ ret.out = "value" /\ ret.val = 2

\* The live handles whose co is the frame f.
Owners(f) == {h \in Handles : hst[h] = "live" /\ co[h] = f}

\* Every live frame has exactly one owner, and no live handle holds a
\* frame that does not exist.
OwnedOnce ==
    /\ \A f \in Frames : fst[f] = "live" => Cardinality(Owners(f)) = 1
    /\ \A h \in Handles : (hst[h] = "live" /\ co[h] # Null) => fst[co[h]] = "live"

\* A frame comes to exist in Create and ceases to exist, while alive, through
\* the handle that owns it (in its destructor or when it is assigned to);
\* the destructor of an owner destroys the frame, that of an empty handle
\* destroys nothing.
ReleasedByOwner ==
    /\ \A f \in Frames :
          fst'[f] # fst[f] =>
             \/ fst[f] = "none" /\ fst'[f] = "live" /\ ret'.op = "Create"
             \/ /\ fst[f] = "live" /\ fst'[f] = "destroyed"
                /\ ret'.op \in {"Destroy", "MoveAssign"} /\ co[ret'.h] = f
    /\ ret'.op = "Destroy" =>
          IF co[ret'.h] = Null THEN fst' = fst ELSE fst'[co[ret'.h]] = "destroyed"

\* C13: a frame has one owner at a time and is destroyed once, by its owner,
\* whatever state its body is in; when every handle is destroyed no frame
\* is left.
C13_SingleOwner == []OwnedOnce /\ [][ReleasedByOwner]_vars

C13_Witness ==
    /\ ret.op = "Destroy" /\ ret.h = 2 /\ ret.f = 1
    /\ \A h \in Handles : hst[h] = "dead"
    /\ fst[1] = "destroyed" /\ Len(frame[1].ys) = 1 /\ frame[1].fin = "running"
    /\ \A f \in Frames : fst[f] # "live"

\* The calls that resume a Generator.
GeneratorOps == {"Next", "PickNext", "begin", "inc"}

\* C14: when the body of a Generator throws, the call that resumed it into
\* the throw (Next, PickNext, begin or ++) throws the body's exception, not
\* the exhaustion Exc and not a silent end; the frame is done afterwards and
\* every later Next() or PickNext() throws the exhaustion Exc; the body's
\* exception is thrown in no other case.
C14_BodyFailureSurfaces ==
    (ret.op \in GeneratorOps /\ ret.f # Null /\ ~ret.ub) =>
        LET fr == frame[ret.f]
            c == calls[ret.f]
        IN  /\ fr.fin = "threw" =>
                  /\ fr.done
                  /\ c = NSteps(fr) => ret.out = "exc"
                  /\ (c > NSteps(fr) /\ ret.op \in {"Next", "PickNext"}) => ret.out = "exhausted"
            /\ ret.out = "exc" => (fr.fin = "threw" /\ c = NSteps(fr))

C14_Witness ==
    /\ ret.op = "begin" /\ ret.f # Null /\ ret.out = "exc"
    /\ frame[ret.f].ys = <<1>> /\ calls[ret.f] = 2

\* Do(), Next() or PickNext() on a done frame leaves every frame as it was
\* (done, value, exc, and the body not run); Do() returns false and Next()
\* and PickNext() throw the exhaustion Exc.
DoneCallIsNoOp ==
    (ret'.op \in {"Do", "Next", "PickNext"} /\ ret'.f # Null /\ frame[ret'.f].done) =>
        /\ frame' = frame
        /\ ret'.out = (IF ret'.op = "Do" THEN "false" ELSE "exhausted")

\* C15: a driving call on a frame that is already done changes nothing of
\* the frame and runs nothing of the body.
C15_DoneCallNoOp == [][DoneCallIsNoOp]_vars

C15_Witness ==
    /\ Was("Next") /\ ret.out = "exhausted"
    /\ frame[ret.f].ys = <<2>> /\ frame[ret.f].fin = "returned" /\ frame[ret.f].value = 2
    /\ calls[ret.f] = 4

\* The frame without the value stored in its promise.
BesidesValue(fr) == [fr EXCEPT !.value = DefaultValue]

\* C16: whatever mix of Next() and PickNext() drove a Generator, a call of
\* PickNext() gives what Next() gives at that place in a run of Next() alone
\* (the same value, the body's exception, or the exhaustion Exc) and leaves
\* the frame as that run leaves it, except that the value in the promise may
\* be moved-from.
C16_PickNextAsNext ==
    Was("PickNext") =>
        LET fr == frame[ret.f]
            n == NextTimes(promise_type("Generator"), BodyTrace(fr), calls[ret.f])
        IN  /\ ret.out = n.out
            /\ ret.val = n.val
            /\ BesidesValue(fr) = BesidesValue(n.fr)
            /\ fr.value \in {n.fr.value, MovedFrom}

C16_Witness ==
    /\ Was("PickNext") /\ ret.out = "value" /\ ret.val = 1
    /\ frame[ret.f].value = MovedFrom /\ frame[ret.f].ys = <<2, 1>> /\ calls[ret.f] = 2

\* A Generator has been resumed once by each driving call made on it while
\* it was not done, and a call that resumed it and comes back with a value or
\* an iterator was the k-th resume and stored (and, for Next and PickNext,
\* returned) the k-th value the body yielded; begin() is such a call
\* wherever the body stands.
ResumesInOrder ==
    /\ \A f \in Frames :
          (fst[f] = "live" /\ frame[f].kind = "Generator") =>
              /\ NSteps(frame[f]) <= calls[f]
              /\ frame[f].fin = "running" => calls[f] = Len(frame[f].ys)
    /\ ( /\ ret.op \in GeneratorOps /\ ret.f # Null /\ ~ret.ub
         /\ calls[ret.f] = NSteps(frame[ret.f]) /\ ret.out \in {"value", "iter"} ) =>
          LET fr == frame[ret.f]
              k == calls[ret.f]
          IN  /\ k = Len(fr.ys) /\ fr.fin = "running"
              /\ ret.out = "value" => ret.val = fr.ys[k]
              /\ ret.op # "PickNext" => fr.value = fr.ys[k]

\* operator* was called on an iterator of a Generator that is not done.
DerefOfRunning ==
    ret.op = "deref" /\ ret.f # Null /\ ~ret.ub /\ frame[ret.f].fin = "running"

\* C17 as stated: resumes through Next, PickNext, begin and ++ follow one
\* another on the same body, and operator* returns the value the most recent
\* resume stored.
C17_DerefGivesLastYield ==
    /\ ResumesInOrder
    /\ DerefOfRunning =>
          (ret.out = "value" /\ ret.val = frame[ret.f].ys[Len(frame[ret.f].ys)])

\* C17 amended: resumes through Next, PickNext, begin and ++ follow one
\* another on the same body, and operator* returns the value the most recent
\* resume stored unless that resume was made by PickNext(), which moved the
\* value out: then operator* returns the moved-from value left in the promise.
C17_SequentialResumes ==
    /\ ResumesInOrder
    /\ DerefOfRunning =>
          LET fr == frame[ret.f]
          IN  /\ ret.out = "value" /\ ret.val = fr.value
              /\ fr.value \in {fr.ys[Len(fr.ys)], MovedFrom}

C17_Witness ==
    /\ DerefOfRunning /\ ret.val = MovedFrom
    /\ frame[ret.f].ys = <<1, 2>> /\ calls[ret.f] = 2

\* C18: no call of the public interface resumes a frame that is done, or
\* reaches for a frame through an empty handle or a null iterator: each
\* call tests what it is about to use.
C18_EveryResumeChecked == ret.op \in ApiOps => ~ret.ub

\* C19: a Generator whose body yields n values and then ends is not done
\* after the n-th value was returned; its body runs to its end, and the frame
\* becomes done, in the (n+1)-th driving call, which is the Next() or
\* PickNext() that throws the exhaustion Exc or the begin() or ++ that gives
\* end().
C19_ExhaustionOneLate ==
    /\ \A f \in Frames :
          (fst[f] = "live" /\ frame[f].kind = "Generator") =>
              /\ frame[f].done = (frame[f].fin # "running")
              /\ frame[f].fin = "returned" => calls[f] >= Len(frame[f].ys) + 1
              /\ calls[f] <= Len(frame[f].ys) => ~frame[f].done
    /\ (ret.op \in GeneratorOps /\ ret.f # Null /\ ~ret.ub) =>
          LET fr == frame[ret.f]
              c == calls[ret.f]
          IN  /\ ret.out = "value" => (~fr.done /\ c = Len(fr.ys))
              /\ (fr.fin = "returned" /\ c = Len(fr.ys) + 1) =>
                    ret.out = (IF ret.op \in {"Next", "PickNext"} THEN "exhausted" ELSE "end")
              /\ (ret.out \in {"exhausted", "end"} /\ c = NSteps(fr)) =>
                    (fr.fin = "returned" /\ c = Len(fr.ys) + 1)

C19_Witness ==
    /\ Was("Next") /\ ret.out = "exhausted"
    /\ frame[ret.f].ys = <<1, 2>> /\ frame[ret.f].fin = "returned" /\ calls[ret.f] = 3

\* A move assignment to the handle dst of the handle that held the frame new
\* (Null when it was empty): when that is dst itself, or both are empty,
\* nothing changes; otherwise the frame dst owned, if any, existed and is
\* destroyed, dst owns new, the source is empty, and nothing else changes.
AssignTakesOver ==
    ret'.op = "MoveAssign" =>
        LET dst == ret'.h
            old == co[dst]
            new == ret'.f
        IN  IF new = old
            THEN co' = co /\ fst' = fst /\ frame' = frame
            ELSE /\ co'[dst] = new
                 /\ \A s \in Handles \ {dst} :
                       co'[s] = (IF new # Null /\ co[s] = new THEN Null ELSE co[s])
                 /\ old # Null => (fst[old] = "live" /\ fst'[old] = "destroyed")
                 /\ \A f \in Frames \ {old} : fst'[f] = fst[f]
                 /\ new # Null => fst'[new] = "live"
                 /\ frame' = frame

\* C20: move assignment destroys the frame the destination owned, once and
\* in whatever state its body is, hands the source's frame to the
\* destination and empties the source; assigning a handle to itself changes
\* nothing.
C20_MoveAssignReplaces == [][AssignTakesOver]_vars

C20_Witness ==
    /\ ret.op = "MoveAssign" /\ ret.h = 1 /\ ret.f = 2
    /\ co[1] = 2 /\ co[2] = Null /\ hst[2] = "live"
    /\ fst[1] = "destroyed" /\ fst[2] = "live"
    /\ Len(frame[1].ys) = 1 /\ frame[1].fin = "running"
====
